---------------------------- MODULE Spec2Model ----------------------------
(***************************************************************************)
(* State-machine model of the OCR text extractor:                          *)
(*   routes/ocr.py            POST /extract-text request handler           *)
(*   services/ocr_service.py  OCRService, the extraction orchestrator      *)
(* Strings are sequences of one-character strings.  One request is handled *)
(* per behaviour; every library call that can raise either succeeds or     *)
(* raises, chosen nondeterministically.                                    *)
(***************************************************************************)
EXTENDS Integers, Sequences, FiniteSets, TLC

VARIABLES
    pc,             \* position of the request inside extract_text / OCRService
    request,        \* the upload: has_file, filename, size (bytes)
    fs,             \* paths of the temporary files present on disk
    temp_file_path, \* ocr.py:67, path of the staged file (<<>> before staging)
    response,       \* the response envelope returned by the handler
    responses,      \* number of envelopes the handler has returned
    checks,         \* validation checks evaluated so far, in order
    seeks,          \* number of validate_file_size measurements of the upload
    extract_calls,  \* number of calls of OCRService.extract_text
    file_type,      \* ocr_service.py:158, result of detect_file_type
    pdf_pages,      \* embedded text of each page of the staged PDF
    extracted_text, \* ocr_service.py:84, accumulator of direct extraction
    raster_calls,   \* number of calls of convert_from_path
    pages,          \* ocr_service.py:121, number of rasterized page images
    page_num,       \* ocr_service.py:125, index of the page in the loop
    page_temp,      \* ocr_service.py:127, path of the page's bitmap file
    ocr_text,       \* ocr_service.py:123, accumulator of the OCR fallback
    recognized,     \* per recognized page: its number and its text
    result_text,    \* ocr_service.py:168, text returned by extract_text
    ocr_error       \* message chain of the exception being propagated

vars == <<pc, request, fs, temp_file_path, response, responses, checks, seeks,
          extract_calls, file_type, pdf_pages, extracted_text, raster_calls,
          pages, page_num, page_temp, ocr_text, recognized, result_text,
          ocr_error>>

----------------------------------------------------------------------------
(* Bounds of the model *)

MaxPages == 3

(* Program constants *)

ALLOWED_EXTENSIONS ==
    { <<"p","n","g">>, <<"j","p","g">>, <<"j","p","e","g">>, <<"p","d","f">> }

MAX_FILE_SIZE == 16 * 1024 * 1024

TEXT_THRESHOLD == 50

IMAGE_EXTENSIONS ==
    { <<".","j","p","g">>, <<".","j","p","e","g">>, <<".","p","n","g">>,
      <<".","b","m","p">>, <<".","t","i","f","f">>, <<".","g","i","f">> }

PDF_EXTENSION == <<".","p","d","f">>

----------------------------------------------------------------------------
(* String helpers: what the Python built-ins used by the code compute *)

Whitespace == { " ", "\n", "\t", "\r" }

UpperCase == <<"A","B","C","D","E","F","G","H","I","J","K","L","M",
               "N","O","P","Q","R","S","T","U","V","W","X","Y","Z">>
LowerCase == <<"a","b","c","d","e","f","g","h","i","j","k","l","m",
               "n","o","p","q","r","s","t","u","v","w","x","y","z">>

ToLower ==
    [c \in {UpperCase[i] : i \in 1..Len(UpperCase)} |->
        LowerCase[CHOOSE i \in 1..Len(UpperCase) : UpperCase[i] = c]]

\* str.lower() on one character
LowerChar(c) == IF c \in DOMAIN ToLower THEN ToLower[c] ELSE c

\* str.lower()
Lower(s) == [i \in 1..Len(s) |-> LowerChar(s[i])]

\* c in s
Contains(s, c) == \E i \in 1..Len(s) : s[i] = c

\* s.rfind(c), 0-based as in Python, -1 when absent
RECURSIVE RFindFrom(_, _, _)
RFindFrom(s, c, i) ==
    IF i = 0 THEN -1
    ELSE IF s[i] = c THEN i - 1
    ELSE RFindFrom(s, c, i - 1)

RFind(s, c) == RFindFrom(s, c, Len(s))

\* s.rsplit(c, 1): a one- or two-element list
RSplit1(s, c) ==
    LET k == RFind(s, c)
    IN  IF k < 0 THEN << s >>
        ELSE << SubSeq(s, 1, k), SubSeq(s, k + 2, Len(s)) >>

\* s.strip(): leading and trailing whitespace removed
RECURSIVE LStrip(_)
LStrip(s) ==
    IF s # << >> /\ Head(s) \in Whitespace THEN LStrip(Tail(s)) ELSE s

RECURSIVE RStrip(_)
RStrip(s) ==
    IF s # << >> /\ s[Len(s)] \in Whitespace
    THEN RStrip(SubSeq(s, 1, Len(s) - 1)) ELSE s

Strip(s) == RStrip(LStrip(s))

\* str(n) for n >= 0, in decimal
Digits == <<"0","1","2","3","4","5","6","7","8","9">>

RECURSIVE Str(_)
Str(n) ==
    IF n < 10 THEN << Digits[n + 1] >>
    ELSE Str(n \div 10) \o << Digits[(n % 10) + 1] >>

\* n copies of character c
Rep(c, n) == [i \in 1..n |-> c]

\* genericpath._splitext with sep "/" and extsep ".": the extension starts at
\* the last dot of the last path component, unless only dots precede it there
RECURSIVE SplitextScan(_, _, _)
SplitextScan(p, filenameIndex, dotIndex) ==
    IF filenameIndex >= dotIndex THEN << >>
    ELSE IF p[filenameIndex + 1] # "."
         THEN SubSeq(p, dotIndex + 1, Len(p))
    ELSE SplitextScan(p, filenameIndex + 1, dotIndex)

\* os.path.splitext(p)[1]
SplitextExt(p) ==
    LET sepIndex == RFind(p, "/")
        dotIndex == RFind(p, ".")
    IN  IF dotIndex > sepIndex
        THEN SplitextScan(p, sepIndex + 1, dotIndex)
        ELSE << >>

----------------------------------------------------------------------------
(* Inputs of the model *)

\* Client-supplied filenames
Filenames ==
    { << >>,
      <<"a",".","p","d","f">>,
      <<"a",".","P","D","F">>,
      <<".","p","d","f">>,
      <<"d","/",".","p","d","f">>,
      <<"a",".","p","n","g">>,
      <<"a",".","J","p","g">>,
      <<"a",".","j","p","e","g">>,
      <<"a",".","g","i","f">>,
      <<"a",".","t","x","t">>,
      <<"a",".","p","d","f",".","t">>,
      <<"a",".","p","d","f","/","b">>,
      <<"p","d","f">>,
      <<"a",".">> }

\* Upload sizes in bytes, at the ceiling and just above it
Sizes == { MAX_FILE_SIZE, MAX_FILE_SIZE + 1 }

\* A multipart request: without a file part there is no file object
Requests ==
    { [has_file |-> FALSE, filename |-> << >>, size |-> 0] }
    \cup [has_file : {TRUE}, filename : Filenames, size : Sizes]

\* Embedded text of one PDF page, as page.extract_text() returns it
PageTexts ==
    { << >>, <<" ">>, <<" ">> \o Rep("x", 24), Rep("x", 25) }

\* PDF documents: the embedded text of each page, in page order
PdfDocs == UNION { [1..n -> PageTexts] : n \in 0..MaxPages }

\* The page-delimiter header, ocr_service.py:132
PageMarker(n) ==
    <<"-","-","-"," ","P","a","g","e"," ">> \o Str(n) \o <<" ","-","-","-">>

\* Raw outputs of the recognition engine for one bitmap
RecognizedTexts ==
    { <<"\n">>, <<"h","i","\n">>, <<" ">> \o PageMarker(1) }

----------------------------------------------------------------------------
(* routes/ocr.py *)

\* allowed_file without the test for a '.' in the filename
allowed_file_any_suffix(filename) ==
    LET parts == RSplit1(filename, ".")
    IN  Lower(parts[Len(parts)]) \in ALLOWED_EXTENSIONS

\* allowed_file(filename)
allowed_file(filename) ==
    /\ Contains(filename, ".")
    /\ Lower(RSplit1(filename, ".")[2]) \in ALLOWED_EXTENSIONS

\* validate_file_size with an exclusive ceiling
validate_file_size_exclusive(file_size) == file_size < MAX_FILE_SIZE

\* validate_file_size(file), given the measured length
validate_file_size(file_size) == file_size <= MAX_FILE_SIZE

\* tempfile.NamedTemporaryFile: a fresh name, unique part then the suffix
TempName(unique, suffix) ==
    <<"/","t","m","p","/","t","m","p">> \o unique \o suffix

\* name of the staged file of the request, ocr.py:65
StagedName == TempName(<<"_">>, SplitextExt(request.filename))

\* name of the bitmap file of page index n, ocr_service.py:127
PageName(n) == TempName(Str(n), <<".","p","n","g">>)

NoResponse ==
    [status |-> 0, success |-> FALSE, keys |-> {}, error |-> << >>,
     text |-> << >>, file_type |-> ""]

ErrorResponse(status, error) ==
    [status |-> status, success |-> FALSE, keys |-> {"success", "error"},
     error |-> error, text |-> << >>, file_type |-> ""]

SuccessResponse(text, ftype) ==
    [status |-> 200, success |-> TRUE,
     keys |-> {"success", "text", "file_type", "filename"},
     error |-> << >>, text |-> text, file_type |-> ftype]

\* return jsonify(...), status
Respond(r) ==
    /\ response' = r
    /\ responses' = responses + 1
    /\ pc' = "done"

OcrVars == <<file_type, pdf_pages, extracted_text, raster_calls, pages,
             page_num, page_temp, ocr_text, recognized, result_text>>

Init ==
    /\ pc = "idle"
    /\ request = [has_file |-> FALSE, filename |-> << >>, size |-> 0]
    /\ fs = {}
    /\ temp_file_path = << >>
    /\ response = NoResponse
    /\ responses = 0
    /\ checks = << >>
    /\ seeks = 0
    /\ extract_calls = 0
    /\ file_type = ""
    /\ pdf_pages = << >>
    /\ extracted_text = << >>
    /\ raster_calls = 0
    /\ pages = 0
    /\ page_num = 0
    /\ page_temp = << >>
    /\ ocr_text = << >>
    /\ recognized = << >>
    /\ result_text = << >>
    /\ ocr_error = << >>

\* a POST /extract-text request arrives
Request ==
    /\ pc = "idle"
    /\ \E r \in Requests : request' = r
    /\ pc' = "check_file"
    /\ UNCHANGED <<fs, temp_file_path, response, responses, checks, seeks,
                   extract_calls, ocr_error>>
    /\ UNCHANGED OcrVars

\* ocr.py:35-39
CheckFilePresent ==
    /\ pc = "check_file"
    /\ checks' = Append(checks, "file")
    /\ IF ~request.has_file
       THEN Respond(ErrorResponse(400, <<"No file provided">>))
       ELSE /\ pc' = "check_name"
            /\ UNCHANGED <<response, responses>>
    /\ UNCHANGED <<request, fs, temp_file_path, seeks, extract_calls,
                   ocr_error>>
    /\ UNCHANGED OcrVars

\* ocr.py:41-48
CheckFilename ==
    /\ pc = "check_name"
    /\ checks' = Append(checks, "name")
    /\ IF request.filename = << >>
       THEN Respond(ErrorResponse(400, <<"No file selected">>))
       ELSE /\ pc' = "check_type"
            /\ UNCHANGED <<response, responses>>
    /\ UNCHANGED <<request, fs, temp_file_path, seeks, extract_calls,
                   ocr_error>>
    /\ UNCHANGED OcrVars

\* the extension step measuring and rejecting on the size first
CheckExtension_size_first ==
    /\ pc = "check_type"
    /\ checks' = Append(checks, "type")
    /\ IF ~validate_file_size(request.size)
       THEN Respond(ErrorResponse(400, <<"File size too large">>))
       ELSE IF ~allowed_file(request.filename)
       THEN Respond(ErrorResponse(400, <<"File type not allowed">>))
       ELSE /\ pc' = "check_size"
            /\ UNCHANGED <<response, responses>>
    /\ UNCHANGED <<request, fs, temp_file_path, seeks, extract_calls,
                   ocr_error>>
    /\ UNCHANGED OcrVars

\* ocr.py:50-55
CheckExtension ==
    /\ pc = "check_type"
    /\ checks' = Append(checks, "type")
    /\ IF ~allowed_file(request.filename)
       THEN Respond(ErrorResponse(400, <<"File type not allowed">>))
       ELSE /\ pc' = "check_size"
            /\ UNCHANGED <<response, responses>>
    /\ UNCHANGED <<request, fs, temp_file_path, seeks, extract_calls,
                   ocr_error>>
    /\ UNCHANGED OcrVars

\* the size step with the result of validate_file_size ignored
CheckSize_result_ignored ==
    /\ pc = "check_size"
    /\ checks' = Append(checks, "size")
    /\ seeks' = seeks + 1
    /\ pc' = "stage"
    /\ UNCHANGED <<request, fs, temp_file_path, response, responses,
                   extract_calls, ocr_error>>
    /\ UNCHANGED OcrVars

\* ocr.py:57-62, with the seek of validate_file_size (ocr.py:20-22)
CheckSize ==
    /\ pc = "check_size"
    /\ checks' = Append(checks, "size")
    /\ seeks' = seeks + 1
    /\ IF ~validate_file_size(request.size)
       THEN Respond(ErrorResponse(400, <<"File size too large">>))
       ELSE /\ pc' = "stage"
            /\ UNCHANGED <<response, responses>>
    /\ UNCHANGED <<request, fs, temp_file_path, extract_calls, ocr_error>>
    /\ UNCHANGED OcrVars

\* ocr.py:65, NamedTemporaryFile(delete=False, suffix=...) creates the file
CreateTempFile ==
    /\ pc = "stage"
    /\ \/ /\ fs' = fs \cup {StagedName}
          /\ pc' = "save"
          /\ UNCHANGED <<response, responses>>
       \/ /\ Respond(ErrorResponse(500, <<"Server error">>))
          /\ UNCHANGED fs
    /\ UNCHANGED <<request, temp_file_path, checks, seeks, extract_calls,
                   ocr_error>>
    /\ UNCHANGED OcrVars

\* ocr.py:66-67, file.save(temp_file.name); a failure reaches ocr.py:94-98
SaveUpload ==
    /\ pc = "save"
    /\ \/ /\ temp_file_path' = StagedName
          /\ pc' = "extract"
          /\ UNCHANGED <<response, responses>>
       \/ /\ Respond(ErrorResponse(500, <<"Server error">>))
          /\ UNCHANGED temp_file_path
    /\ UNCHANGED <<request, fs, checks, seeks, extract_calls, ocr_error>>
    /\ UNCHANGED OcrVars

\* ocr.py:74-82, os.unlink then the success envelope; a failing unlink is
\* caught at ocr.py:84
ReturnSuccess ==
    /\ pc = "ocr_returned"
    /\ \/ /\ fs' = fs \ {temp_file_path}
          /\ Respond(SuccessResponse(result_text, file_type))
          /\ UNCHANGED ocr_error
       \/ /\ ocr_error' = <<"unlink failed">>
          /\ pc' = "ocr_raised"
          /\ UNCHANGED <<fs, response, responses>>
    /\ UNCHANGED <<request, temp_file_path, checks, seeks, extract_calls>>
    /\ UNCHANGED OcrVars

\* the error handler returning its envelope without the 500 status
HandleOcrError_default_status ==
    /\ pc = "ocr_raised"
    /\ fs' = fs \ {temp_file_path}
    /\ Respond(ErrorResponse(200, <<"OCR processing failed">> \o ocr_error))
    /\ UNCHANGED <<request, temp_file_path, checks, seeks, extract_calls,
                   ocr_error>>
    /\ UNCHANGED OcrVars

\* ocr.py:84-92, and ocr.py:94-98 when the unlink at ocr.py:87 raises
HandleOcrError ==
    /\ pc = "ocr_raised"
    /\ IF temp_file_path \in fs
       THEN \/ /\ fs' = fs \ {temp_file_path}
               /\ Respond(ErrorResponse(500,
                              <<"OCR processing failed">> \o ocr_error))
            \/ /\ Respond(ErrorResponse(500, <<"Server error">>))
               /\ UNCHANGED fs
       ELSE /\ Respond(ErrorResponse(500,
                           <<"OCR processing failed">> \o ocr_error))
            /\ UNCHANGED fs
    /\ UNCHANGED <<request, temp_file_path, checks, seeks, extract_calls,
                   ocr_error>>
    /\ UNCHANGED OcrVars

----------------------------------------------------------------------------
(* services/ocr_service.py *)

\* detect_file_type(file_path): "image", "pdf" or "" when ValueError is raised
detect_file_type(file_path) ==
    LET file_extension == Lower(SplitextExt(file_path))
    IN  IF file_extension \in IMAGE_EXTENSIONS THEN "image"
        ELSE IF file_extension = PDF_EXTENSION THEN "pdf"
        ELSE ""

\* whether a page's text is added by the loop, ocr_service.py:95
MeaningfulText(page_text) == page_text # << >> /\ Strip(page_text) # << >>

\* the loop of direct extraction over pages[1..n], ocr_service.py:90-96
RECURSIVE DirectExtract(_, _)
DirectExtract(doc, n) ==
    IF n = 0 THEN << >>
    ELSE IF MeaningfulText(doc[n])
         THEN DirectExtract(doc, n - 1) \o doc[n] \o <<"\n">>
    ELSE DirectExtract(doc, n - 1)

\* the threshold test with an inclusive comparison
Substantial_inclusive(text) == Len(Strip(text)) >= TEXT_THRESHOLD

\* ocr_service.py:99, the direct text is substantial
Substantial(text) == Len(Strip(text)) > TEXT_THRESHOLD

\* the page section with the 0-based loop index in its header
PageSection_zero_based(n, page_text) ==
    PageMarker(n - 1) \o <<"\n">> \o page_text \o <<"\n", "\n">>

\* ocr_service.py:132, what one recognized page adds to the accumulator
PageSection(n, page_text) ==
    PageMarker(n) \o <<"\n">> \o page_text \o <<"\n", "\n">>

\* an exception leaves extract_text wrapped at every level it crosses
Raise(chain) ==
    /\ ocr_error' = chain
    /\ pc' = "ocr_raised"

\* ocr_service.py:140 then 106 then 171
RaiseFromOcr(cause) ==
    Raise(<<"Failed to extract text", "Failed to extract text from PDF",
            "Failed to extract text from PDF using OCR">> \o cause)

HandlerVars == <<request, fs, temp_file_path, response, responses, checks,
                 seeks>>

\* ocr.py:71 and ocr_service.py:156-158, extract_text calls detect_file_type
ExtractText ==
    /\ pc = "extract"
    /\ extract_calls' = extract_calls + 1
    /\ LET t == detect_file_type(temp_file_path)
       IN  /\ file_type' = t
           /\ IF t = "image" THEN pc' = "image" /\ UNCHANGED ocr_error
              ELSE IF t = "pdf" THEN pc' = "pdf_read" /\ UNCHANGED ocr_error
              ELSE Raise(<<"Failed to extract text", "Unsupported file type">>)
    /\ UNCHANGED HandlerVars
    /\ UNCHANGED <<pdf_pages, extracted_text, raster_calls, pages, page_num,
                   page_temp, ocr_text, recognized, result_text>>

\* ocr_service.py:53-67 and 162, 168
ExtractTextFromImage ==
    /\ pc = "image"
    /\ \/ \E text \in RecognizedTexts :
            /\ result_text' = Strip(text)
            /\ pc' = "ocr_returned"
            /\ UNCHANGED ocr_error
       \/ /\ Raise(<<"Failed to extract text",
                     "Failed to extract text from image">>)
          /\ UNCHANGED result_text
    /\ UNCHANGED HandlerVars
    /\ UNCHANGED <<extract_calls, file_type, pdf_pages, extracted_text,
                   raster_calls, pages, page_num, page_temp, ocr_text,
                   recognized>>

\* ocr_service.py:83-103, direct extraction and the choice of strategy
ExtractTextFromPdf ==
    /\ pc = "pdf_read"
    /\ \/ \E doc \in PdfDocs :
            LET text == DirectExtract(doc, Len(doc))
            IN  /\ pdf_pages' = doc
                /\ extracted_text' = text
                /\ IF Substantial(text)
                   THEN /\ result_text' = Strip(text)
                        /\ pc' = "ocr_returned"
                   ELSE /\ pc' = "rasterize"
                        /\ UNCHANGED result_text
                /\ UNCHANGED ocr_error
       \/ /\ Raise(<<"Failed to extract text",
                     "Failed to extract text from PDF">>)
          /\ UNCHANGED <<pdf_pages, extracted_text, result_text>>
    /\ UNCHANGED HandlerVars
    /\ UNCHANGED <<extract_calls, file_type, raster_calls, pages, page_num,
                   page_temp, ocr_text, recognized>>

\* ocr_service.py:121-123, convert_from_path renders every page
Rasterize ==
    /\ pc = "rasterize"
    /\ raster_calls' = raster_calls + 1
    /\ \/ /\ pages' = Len(pdf_pages)
          /\ ocr_text' = << >>
          /\ page_num' = 0
          /\ pc' = "page_loop"
          /\ UNCHANGED ocr_error
       \/ /\ RaiseFromOcr(<< >>)
          /\ UNCHANGED <<pages, ocr_text, page_num>>
    /\ UNCHANGED HandlerVars
    /\ UNCHANGED <<extract_calls, file_type, pdf_pages, extracted_text,
                   page_temp, recognized, result_text>>

\* ocr_service.py:125-127, the next page's bitmap file is created
CreatePageFile ==
    /\ pc = "page_loop"
    /\ page_num < pages
    /\ \/ /\ fs' = fs \cup {PageName(page_num)}
          /\ page_temp' = PageName(page_num)
          /\ pc' = "page_save"
          /\ UNCHANGED ocr_error
       \/ /\ RaiseFromOcr(<< >>)
          /\ UNCHANGED <<fs, page_temp>>
    /\ UNCHANGED <<request, temp_file_path, response, responses, checks,
                   seeks>>
    /\ UNCHANGED <<extract_calls, file_type, pdf_pages, extracted_text,
                   raster_calls, pages, page_num, ocr_text, recognized,
                   result_text>>

\* ocr_service.py:128, page_image.save
SavePage ==
    /\ pc = "page_save"
    /\ \/ pc' = "page_recognize" /\ UNCHANGED ocr_error
       \/ RaiseFromOcr(<< >>)
    /\ UNCHANGED HandlerVars
    /\ UNCHANGED extract_calls
    /\ UNCHANGED OcrVars

\* ocr_service.py:131-132, the page is recognized and its section appended
RecognizePage ==
    /\ pc = "page_recognize"
    /\ \/ \E text \in RecognizedTexts :
            LET page_text == Strip(text)
            IN  /\ ocr_text' = ocr_text \o PageSection(page_num + 1, page_text)
                /\ recognized' = Append(recognized,
                                   [page |-> page_num + 1, text |-> page_text])
                /\ pc' = "page_unlink"
                /\ UNCHANGED ocr_error
       \/ /\ RaiseFromOcr(<<"Failed to extract text from image">>)
          /\ UNCHANGED <<ocr_text, recognized>>
    /\ UNCHANGED HandlerVars
    /\ UNCHANGED <<extract_calls, file_type, pdf_pages, extracted_text,
                   raster_calls, pages, page_num, page_temp, result_text>>

\* ocr_service.py:135, os.unlink(temp_file.name), then the next iteration
UnlinkPageFile ==
    /\ pc = "page_unlink"
    /\ \/ /\ fs' = fs \ {page_temp}
          /\ page_num' = page_num + 1
          /\ pc' = "page_loop"
          /\ UNCHANGED ocr_error
       \/ /\ RaiseFromOcr(<< >>)
          /\ UNCHANGED <<fs, page_num>>
    /\ UNCHANGED <<request, temp_file_path, response, responses, checks,
                   seeks>>
    /\ UNCHANGED <<extract_calls, file_type, pdf_pages, extracted_text,
                   raster_calls, pages, page_temp, ocr_text, recognized,
                   result_text>>

\* ocr_service.py:137, 103 and 168, the loop is over
ReturnOcrText ==
    /\ pc = "page_loop"
    /\ page_num = pages
    /\ result_text' = Strip(ocr_text)
    /\ pc' = "ocr_returned"
    /\ UNCHANGED HandlerVars
    /\ UNCHANGED <<extract_calls, file_type, pdf_pages, extracted_text,
                   raster_calls, pages, page_num, page_temp, ocr_text,
                   recognized, ocr_error>>

----------------------------------------------------------------------------

Next ==
    \/ Request
    \/ CheckFilePresent
    \/ CheckFilename
    \/ CheckExtension
    \/ CheckSize
    \/ CreateTempFile
    \/ SaveUpload
    \/ ExtractText
    \/ ExtractTextFromImage
    \/ ExtractTextFromPdf
    \/ Rasterize
    \/ CreatePageFile
    \/ SavePage
    \/ RecognizePage
    \/ UnlinkPageFile
    \/ ReturnOcrText
    \/ ReturnSuccess
    \/ HandleOcrError

Spec == Init /\ [][Next]_vars

----------------------------------------------------------------------------
(* Vocabulary of the properties, stated independently of the handler *)

ValidationOrder == <<"file", "name", "type", "size">>

ValidationPcs == {"idle", "check_file", "check_name", "check_type",
                  "check_size"}

Done == pc = "done"

\* the request was rejected by the Upload Validator
Rejected == Done /\ response.status = 400

\* all four checks were evaluated and passed
Validated == pc \notin ValidationPcs /\ ~Rejected

HasDot(f) == \E i \in DOMAIN f : f[i] = "."

AfterFinalDot(f) ==
    LET d == CHOOSE i \in DOMAIN f :
                 f[i] = "." /\ \A j \in DOMAIN f : j > i => f[j] # "."
    IN  [k \in 1..(Len(f) - d) |-> f[d + k]]

SameIgnoringCase(a, b) ==
    Len(a) = Len(b) /\ \A i \in DOMAIN a : LowerChar(a[i]) = LowerChar(b[i])

PdfName == <<"p","d","f">>

ImageNames == { <<"p","n","g">>, <<"j","p","g">>, <<"j","p","e","g">> }

ExtensionAccepted(f) ==
    HasDot(f) /\ \E e \in ImageNames \cup {PdfName} :
                     SameIgnoringCase(AfterFinalDot(f), e)

EndsWith(s, suffix) ==
    /\ Len(suffix) <= Len(s)
    /\ \A i \in DOMAIN suffix : s[Len(s) - Len(suffix) + i] = suffix[i]

\* the positions at which sub occurs in s
Occurrences(s, sub) ==
    { p \in 1..(Len(s) - Len(sub) + 1) :
        \A i \in DOMAIN sub : s[p + i - 1] = sub[i] }

OccursAt(s, sub, p) ==
    /\ p + Len(sub) - 1 <= Len(s)
    /\ \A i \in DOMAIN sub : s[p + i - 1] = sub[i]

Blank(s) == \A i \in DOMAIN s : s[i] \in Whitespace

RECURSIVE JoinLines(_)
JoinLines(texts) ==
    IF texts = << >> THEN << >>
    ELSE Head(texts) \o <<"\n">> \o JoinLines(Tail(texts))

NotBlank(s) == ~Blank(s)

\* every page's text, each followed by a newline, trimmed
AllPagesText(doc) == Strip(JoinLines(doc))

\* the same over the pages whose text is not blank
NonBlankPagesText(doc) == Strip(JoinLines(SelectSeq(doc, NotBlank)))

\* the staged PDF was parsed and the strategy chosen
PdfStrategyChosen ==
    /\ file_type = "pdf"
    /\ pc \in {"rasterize", "page_loop", "page_save", "page_recognize",
               "page_unlink", "ocr_returned"}

FallbackTaken == pc = "rasterize" \/ raster_calls = 1

\* bitmap files of PDF pages present on disk
PageBitmaps == fs \ {StagedName}

OcrFinished == pc \in {"ocr_returned", "ocr_raised", "done"}

----------------------------------------------------------------------------
(* C1: once a validated request has produced its response, its staged      *)
(* temporary file is not on the filesystem, whichever step failed.         *)
C1_StagedFileRemoved == (Done /\ Validated) => StagedName \notin fs

(* C2: a request with a file part and a non-empty filename that has no     *)
(* '.', or whose text after the final '.' is not png, jpg, jpeg or pdf     *)
(* (ignoring case), is answered 400, success=false, 'File type not         *)
(* allowed', whatever the size of the upload.                              *)
C2_DisallowedTypeRejected ==
    (/\ Done
     /\ request.has_file
     /\ request.filename # << >>
     /\ ~ExtensionAccepted(request.filename))
    => /\ response.status = 400
       /\ response.success = FALSE
       /\ response.error = <<"File type not allowed">>

C2_Witness ==
    /\ Done
    /\ HasDot(request.filename)
    /\ ~ExtensionAccepted(request.filename)
    /\ request.size = 16777216
    /\ response.error = <<"File type not allowed">>

(* C3: an upload longer than 16,777,216 bytes is answered 400 with         *)
(* success=false for every extension, and an upload of exactly 16,777,216  *)
(* bytes passes the size check.                                            *)
C3_OversizeRejected ==
    /\ (Done /\ request.has_file /\ request.size > 16777216)
       => (response.status = 400 /\ response.success = FALSE)
    /\ (Done /\ request.size = 16777216)
       => response.error # <<"File size too large">>
    /\ (request.size = 16777216 /\ seeks = 1 /\ ~Done) => Validated

C3_Witness ==
    /\ Done
    /\ ExtensionAccepted(request.filename)
    /\ request.size = 16777217
    /\ response.status = 400
    /\ response.error = <<"File size too large">>

(* C4 as stated: the text of all pages, each followed by a newline,        *)
(* trimmed, decides the strategy: longer than 50 characters, it is         *)
(* returned and the rasterizer is never called; otherwise the fallback     *)
(* is taken.                                                               *)
C4_AllPagesDecide ==
    LET t == AllPagesText(pdf_pages)
    IN  /\ Len(t) > 50 => raster_calls = 0
        /\ PdfStrategyChosen =>
             IF Len(t) > 50
             THEN pc = "ocr_returned" /\ result_text = t
             ELSE FallbackTaken

(* C4 amended: the text of the pages whose text is not blank, each         *)
(* followed by a newline, trimmed, decides the strategy: longer than 50    *)
(* characters, it is returned and the rasterizer is never called;          *)
(* otherwise the fallback is taken.                                        *)
C4_NonBlankPagesDecide ==
    LET t == NonBlankPagesText(pdf_pages)
    IN  /\ Len(t) > 50 => raster_calls = 0
        /\ PdfStrategyChosen =>
             IF Len(t) > 50
             THEN pc = "ocr_returned" /\ result_text = t
             ELSE FallbackTaken

C4_Witness ==
    /\ pc = "ocr_returned"
    /\ file_type = "pdf"
    /\ Len(pdf_pages) = 3
    /\ Blank(pdf_pages[2])
    /\ Len(NonBlankPagesText(pdf_pages)) = 51
    /\ result_text = NonBlankPagesText(pdf_pages)
    /\ raster_calls = 0

\* the PDF has pages and none of them has embedded text
NoEmbeddedText == pdf_pages # << >> /\ \A i \in DOMAIN pdf_pages : pdf_pages[i] = << >>

\* the OCR fallback returned for a PDF without embedded text
ScanReturned ==
    /\ pc = "ocr_returned"
    /\ file_type = "pdf"
    /\ raster_calls > 0
    /\ NoEmbeddedText

Minimum(S) == CHOOSE x \in S : \A y \in S : x <= y

\* the marker at position p is followed by the recognized text of page i
FollowedByText(p, i) ==
    \/ recognized[i].text = << >>
    \/ OccursAt(result_text, <<"\n">> \o recognized[i].text,
                p + Len(PageMarker(i)))

\* position of the header of page i: the first occurrence of its marker after
\* the header of page i - 1 that is followed by the page's text; 0 if none
RECURSIVE HeaderPosition(_)
HeaderPosition(i) ==
    LET prev == IF i = 1 THEN 0 ELSE HeaderPosition(i - 1)
        cands == { p \in Occurrences(result_text, PageMarker(i)) :
                     p > prev /\ FollowedByText(p, i) }
    IN  IF (i > 1 /\ prev = 0) \/ cands = {} THEN 0 ELSE Minimum(cands)

\* pages 1..N were rasterized by one call and recognized once each, in order
PagesProcessedInOrder ==
    /\ raster_calls = 1
    /\ pages = Len(pdf_pages)
    /\ Len(recognized) = Len(pdf_pages)
    /\ \A i \in DOMAIN recognized : recognized[i].page = i

MarkersAscending ==
    Len(recognized) = Len(pdf_pages) /\ HeaderPosition(Len(pdf_pages)) > 0

EachMarkerOnce ==
    \A i \in DOMAIN pdf_pages :
        Cardinality(Occurrences(result_text, PageMarker(i))) = 1

NoMarkerRecognized ==
    \A j \in DOMAIN recognized : \A i \in DOMAIN pdf_pages :
        Occurrences(recognized[j].text, PageMarker(i)) = {}

(* C5 as stated: for an N-page PDF without embedded text whose pages are   *)
(* all rasterized and recognized, pages 1..N are processed once each in    *)
(* order and the returned text holds the markers of pages 1..N exactly     *)
(* once each, ascending, each followed by the page's recognized text.      *)
C5_MarkersExactlyOnce ==
    ScanReturned =>
        PagesProcessedInOrder /\ MarkersAscending /\ EachMarkerOnce

(* C5 amended: the same, the markers occurring exactly once each provided  *)
(* no page's recognized text itself contains a marker string.              *)
C5_MarkersInOrder ==
    ScanReturned =>
        /\ PagesProcessedInOrder
        /\ MarkersAscending
        /\ NoMarkerRecognized => EachMarkerOnce

C5_Witness ==
    /\ ScanReturned
    /\ Len(pdf_pages) = 3
    /\ recognized[1].text = <<"h","i">>
    /\ recognized[3].text = << >>
    /\ NoMarkerRecognized
    /\ EachMarkerOnce
    /\ HeaderPosition(3) > HeaderPosition(2)

\* the four rules of the Upload Validator, on the request itself
Violation(check) ==
    CASE check = "file" -> ~request.has_file
      [] check = "name" -> request.filename = << >>
      [] check = "type" -> ~ExtensionAccepted(request.filename)
      [] check = "size" -> request.size > 16777216

RuleMessage(check) ==
    CASE check = "file" -> <<"No file provided">>
      [] check = "name" -> <<"No file selected">>
      [] check = "type" -> <<"File type not allowed">>
      [] check = "size" -> <<"File size too large">>

PassesValidation ==
    /\ request.has_file
    /\ \A i \in 2..4 : ~Violation(ValidationOrder[i])

(* C6: every request ends with exactly one envelope: 200 with success,     *)
(* text, file_type and filename only when validation passed and the        *)
(* orchestrator returned; 400 for a validation rejection; 500 when the     *)
(* orchestrator or another handler step raised; every other envelope than  *)
(* 200 has success=false and an error string; no request is left without   *)
(* a response.                                                             *)
C6_OneEnvelope ==
    /\ responses = (IF Done THEN 1 ELSE 0)
    /\ ~Done => (response = NoResponse /\ ENABLED Next)
    /\ Done =>
         /\ response.status \in {200, 400, 500}
         /\ response.status = 200 =>
              /\ response.success = TRUE
              /\ response.keys = {"success", "text", "file_type", "filename"}
              /\ PassesValidation
              /\ extract_calls = 1
              /\ ocr_error = << >>
              /\ response.text = result_text
              /\ response.file_type = file_type
              /\ file_type \in {"image", "pdf"}
         /\ response.status = 400 <=> ~PassesValidation
         /\ (PassesValidation /\ (ocr_error # << >> \/ extract_calls = 0))
              => response.status = 500
         /\ response.status # 200 =>
              /\ response.success = FALSE
              /\ response.keys = {"success", "error"}
              /\ response.error # << >>

C6_Witness ==
    /\ Done
    /\ response.status = 500
    /\ response.error[1] = "OCR processing failed"
    /\ ocr_error # << >>
    /\ extract_calls = 1

(* C7: a request that fails one of the four validation checks creates no   *)
(* temporary file and never reaches OCRService.extract_text; the           *)
(* orchestrator runs and files are created only after all four passed.     *)
C7_NoEffectBeforeValidation ==
    /\ ~PassesValidation =>
         (fs = {} /\ extract_calls = 0 /\ temp_file_path = << >>)
    /\ (fs # {} \/ extract_calls > 0 \/ temp_file_path # << >>) =>
         (checks = ValidationOrder /\ PassesValidation)

C7_Witness ==
    /\ Rejected
    /\ request.has_file
    /\ ExtensionAccepted(request.filename)
    /\ request.size > 16777216
    /\ fs = {}
    /\ extract_calls = 0

(* C8: for a validated filename the staged file's suffix is '.' followed   *)
(* by the text after the filename's final '.', so extract_text classifies  *)
(* a pdf upload as 'pdf' and a png/jpg/jpeg upload as 'image' and never     *)
(* raises the unsupported-type error.                                      *)
C8_ValidatedUploadClassified ==
    LET ext == AfterFinalDot(request.filename)
    IN  /\ temp_file_path # << >> =>
             EndsWith(temp_file_path, <<".">> \o ext)
        /\ extract_calls > 0 =>
             file_type = (IF SameIgnoringCase(ext, PdfName)
                          THEN "pdf" ELSE "image")

(* C9: in the rasterization fallback at most one page bitmap file exists   *)
(* at any time, and none once the fallback has returned or raised.         *)
C9_PageBitmapsRemoved ==
    /\ Cardinality(PageBitmaps) <= 1
    /\ OcrFinished => PageBitmaps = {}

(* C10: the checks run in the order file part, filename, extension, size;  *)
(* a rejection carries the message of the first rule the request violates  *)
(* and no later check is evaluated: the size is measured only after the    *)
(* extension check passed.                                                 *)
C10_FirstFailureWins ==
    /\ checks = SubSeq(ValidationOrder, 1, Len(checks))
    /\ \A i \in DOMAIN checks :
         Violation(checks[i]) => (i = Len(checks) /\ Rejected)
    /\ Rejected =>
         /\ checks # << >>
         /\ Violation(checks[Len(checks)])
         /\ response.error = RuleMessage(checks[Len(checks)])
    /\ seeks = (IF Len(checks) = 4 THEN 1 ELSE 0)
    /\ seeks > 0 => ExtensionAccepted(request.filename)

C10_Witness ==
    /\ Rejected
    /\ request.filename # << >>
    /\ Violation("type")
    /\ Violation("size")
    /\ response.error = <<"File type not allowed">>
    /\ checks = <<"file", "name", "type">>
    /\ seeks = 0

=============================================================================
